---- MODULE Spec2Model ----
(***************************************************************************)
(* Workflow backend: employee records and payroll runs kept in SQLite.     *)
(*                                                                         *)
(* The store is the three tables of database.py.  Every request runs in    *)
(* its own thread on its own connection (database.py get_db), so the       *)
(* requests of Procs interleave at the granularity of SQL statements.      *)
(* A connection's first INSERT/UPDATE opens an implicit transaction that   *)
(* holds SQLite's single write lock until commit or until the connection   *)
(* is closed; uncommitted rows are visible to that connection only.        *)
(***************************************************************************)
EXTENDS Integers, Sequences, FiniteSets, TLC

\* ------------------------------------------------------------------------
\* Bounds of the model
\* ------------------------------------------------------------------------
MaxEmployees == 2
MaxRuns == 2
MaxFaults == 1
MaxSalaryTens == 12
MaxCalls == 3

Procs == {1, 2}

\* ------------------------------------------------------------------------
\* Values
\* ------------------------------------------------------------------------
\* Python None / SQL NULL in a text column.
None == "None"
\* Python None / SQL NULL in the REAL column salary.
NoneReal == -1

Fields == {"name", "role", "department", "salary", "bank_account", "status", "contract_path"}

\* Columns declared NOT NULL in the employees table.
NotNullFields == {"name", "salary", "status"}

IsNull(f, v) == IF f = "salary" THEN v = NoneReal ELSE v = None

\* Request bodies of POST /employees, as sent (absent keys are unset).
CreateBodies ==
    { [name |-> "ann", salary |-> 1000],
      [name |-> "bob", salary |-> 2000, status |-> "on_leave"],
      [name |-> "cy", salary |-> 1000, status |-> "Active", role |-> "dev"],
      [name |-> "dee", salary |-> 2000, status |-> None],
      [name |-> "eve", salary |-> -10] }

\* Request bodies of PUT /employees/{id}, as sent.
UpdateBodies ==
    { [name |-> "zed"],
      [salary |-> 2000],
      [status |-> "active"],
      [status |-> "on_leave", role |-> "ops"],
      [salary |-> NoneReal],
      [salary |-> -10] }

EmployeeIds == 1..(MaxEmployees + 1)
Periods == { <<1, 2024>>, <<2, 2024>>, <<1, 2025>> }

Max(S) == CHOOSE x \in S : \A y \in S : y <= x

\* ------------------------------------------------------------------------
\* Request models (models.py)
\* ------------------------------------------------------------------------
\* EmployeeBase/EmployeeCreate validation: name and salary are required and
\* not None, salary >= 0; every other field is Optional and unconstrained.
ValidCreate(body) ==
    /\ "name" \in DOMAIN body /\ body["name"] # None
    /\ "salary" \in DOMAIN body /\ body["salary"] >= 0

\* Variant: a different default status.
FieldDefaultOnLeave(f) == IF f = "status" THEN "on_leave" ELSE None

\* Field defaults of EmployeeBase for keys the body leaves unset.
FieldDefault(f) == IF f = "status" THEN "active" ELSE None

\* The validated EmployeeCreate object: the body with defaults filled in.
EmployeeCreate(body) ==
    [f \in Fields |-> IF f \in DOMAIN body THEN body[f] ELSE FieldDefault(f)]

\* EmployeeUpdate validation: every field Optional; salary, when a number,
\* must be >= 0 (None passes).
ValidUpdate(body) ==
    "salary" \in DOMAIN body => (body["salary"] = NoneReal \/ body["salary"] >= 0)

\* ------------------------------------------------------------------------
\* Tables (database.py) and SQL helpers
\* ------------------------------------------------------------------------
EmptyTable == [i \in {} |-> 0]

\* Variant: the id is derived from the number of rows, starting at 1 again
\* and again once a table holds a row.
NextIdReused(table) == 1

\* INTEGER PRIMARY KEY AUTOINCREMENT: one more than the largest id used.
NextId(table) == IF DOMAIN table = {} THEN 1 ELSE Max(DOMAIN table) + 1

\* INSERT of one row under a fresh id (cursor.lastrowid = NextId(table)).
InsertRow(table, row) ==
    [i \in DOMAIN table \cup {NextId(table)} |->
        IF i \in DOMAIN table THEN table[i] ELSE row]

\* Variant: the salary column accepts NULL.
ViolatesNotNullText(row) == \E f \in NotNullFields \ {"salary"} : IsNull(f, row[f])

\* A NOT NULL constraint of the employees table rejects the row.
ViolatesNotNull(row) == \E f \in NotNullFields : IsNull(f, row[f])

\* ------------------------------------------------------------------------
\* Employee repository (crud.py)
\* ------------------------------------------------------------------------
\* Variant: an id without a row yields a blank employee.
get_employeeBlank(emps, id) ==
    IF id \in DOMAIN emps
    THEN [found |-> TRUE, id |-> id, row |-> emps[id]]
    ELSE [found |-> TRUE, id |-> id,
          row |-> [name |-> "", role |-> None, department |-> None, salary |-> 0,
                   bank_account |-> None, status |-> "active"]]

\* get_employee: the row with its id, or no row.
get_employee(emps, id) ==
    IF id \in DOMAIN emps
    THEN [found |-> TRUE, id |-> id, row |-> emps[id]]
    ELSE [found |-> FALSE]

\* Variant: unset fields take the defaults of EmployeeBase where it has one.
MergeUpdateWithDefaults(current, body) ==
    [f \in Fields |-> IF f \in DOMAIN body THEN body[f]
                      ELSE IF f = "status" THEN "active" ELSE current[f]]

\* update_employee's merge: current values overridden by the fields set in
\* the request (emp.dict(exclude_unset=True)).
MergeUpdate(current, body) ==
    [f \in Fields |-> IF f \in DOMAIN body THEN body[f] ELSE current[f]]

\* Variant: the UPDATE matches on the id alone.
TerminateMatchesAnyStatus(emps, id) == id \in DOMAIN emps

\* terminate_employee's UPDATE ... WHERE id = ? AND status != 'exited'.
TerminateMatches(emps, id) ==
    id \in DOMAIN emps /\ emps[id]["status"] # "exited"

TerminateRow(row) == [row EXCEPT !["status"] = "exited"]

\* ------------------------------------------------------------------------
\* Payroll calculator and service (crud.py)
\* ------------------------------------------------------------------------
Min(S) == CHOOSE x \in S : \A y \in S : x <= y

\* Rows come back in rowid order: the ids of S in ascending order.
RECURSIVE AscendingSeq(_)
AscendingSeq(S) ==
    IF S = {} THEN <<>> ELSE <<Min(S)>> \o AscendingSeq(S \ {Min(S)})

\* Variant: the deductions are added instead of subtracted.
_calculate_payAdded(id, row) ==
    LET gross == row["salary"]
        deductions == (gross * 10) \div 100
    IN  [employee_id |-> id, name |-> row["name"], gross |-> gross,
         deductions |-> deductions, net |-> gross + deductions]

\* _calculate_pay: deductions are 10% of gross, net is the rest.  Salaries
\* are whole multiples of 10, for which gross * 0.10 is exact.
_calculate_pay(id, row) ==
    LET gross == row["salary"]
        deductions == (gross * 10) \div 100
    IN  [employee_id |-> id, name |-> row["name"], gross |-> gross,
         deductions |-> deductions, net |-> gross - deductions]

\* Variant: every employee not yet exited is selected.
ActiveIdsNotExited(emps) == { i \in DOMAIN emps : emps[i]["status"] # "exited" }

\* SELECT * FROM employees WHERE status = 'active'.
ActiveIds(emps) == { i \in DOMAIN emps : emps[i]["status"] = "active" }

\* Variant: the running sum adds gross pay.
RECURSIVE SumGross(_)
SumGross(items) ==
    IF items = <<>> THEN 0 ELSE items[1].gross + SumGross(Tail(items))

RECURSIVE SumNet(_)
SumNet(items) ==
    IF items = <<>> THEN 0 ELSE items[1].net + SumNet(Tail(items))

\* preview_payroll: one item per selected employee, total_cost the running
\* sum of the items' net.
preview_payroll(emps, month, year) ==
    LET ids == AscendingSeq(ActiveIds(emps))
        items == [n \in 1..Len(ids) |-> _calculate_pay(ids[n], emps[ids[n]])]
    IN  [month |-> month, year |-> year, total_cost |-> SumNet(items), items |-> items]

\* Variant: the run's total is the sum of gross pay.
PayrollRowGrossTotal(preview) ==
    [month |-> preview.month, year |-> preview.year,
     total_cost |-> (preview.total_cost * 10) \div 9]

\* save_payroll's two INSERT statements.
PayrollRow(preview) ==
    [month |-> preview.month, year |-> preview.year, total_cost |-> preview.total_cost]

\* Variant: the gross column receives the net amount.
ItemRowNetAsGross(payroll_id, item) ==
    [payroll_id |-> payroll_id, employee_id |-> item.employee_id,
     gross |-> item.net, deductions |-> item.deductions, net |-> item.net]

\* Variant: the item is stored under the following employee id.
ItemRowNextEmployee(payroll_id, item) ==
    [payroll_id |-> payroll_id, employee_id |-> item.employee_id + 1,
     gross |-> item.gross, deductions |-> item.deductions, net |-> item.net]

ItemRow(payroll_id, item) ==
    [payroll_id |-> payroll_id, employee_id |-> item.employee_id,
     gross |-> item.gross, deductions |-> item.deductions, net |-> item.net]

\* Variant: the amounts are recomputed from the employee's current salary.
JoinedItemsLive(items, emps, payroll_id) ==
    LET ids == AscendingSeq({ i \in DOMAIN items :
                                /\ items[i].payroll_id = payroll_id
                                /\ items[i].employee_id \in DOMAIN emps })
    IN  [n \in 1..Len(ids) |->
            [employee_id |-> items[ids[n]].employee_id,
             name |-> emps[items[ids[n]].employee_id]["name"],
             gross |-> emps[items[ids[n]].employee_id]["salary"],
             deductions |-> items[ids[n]].deductions,
             net |-> emps[items[ids[n]].employee_id]["salary"] - items[ids[n]].deductions]]

\* get_payroll's join: the items of the run whose employee row exists, each
\* with the employee's name read from the employees table.
JoinedItems(items, emps, payroll_id) ==
    LET ids == AscendingSeq({ i \in DOMAIN items :
                                /\ items[i].payroll_id = payroll_id
                                /\ items[i].employee_id \in DOMAIN emps })
    IN  [n \in 1..Len(ids) |->
            [employee_id |-> items[ids[n]].employee_id,
             name |-> emps[items[ids[n]].employee_id]["name"],
             gross |-> items[ids[n]].gross,
             deductions |-> items[ids[n]].deductions,
             net |-> items[ids[n]].net]]

\* get_payroll's result from the payroll row read first and the item rows
\* read second.
PayrollResult(payroll, joined) ==
    [month |-> payroll.month, year |-> payroll.year,
     total_cost |-> payroll.total_cost, items |-> joined]

\* get_payroll as a whole, on one state of the store.
get_payroll(runs, items, emps, payroll_id) ==
    IF payroll_id \notin DOMAIN runs
    THEN [found |-> FALSE]
    ELSE [found |-> TRUE,
          val |-> PayrollResult(runs[payroll_id], JoinedItems(items, emps, payroll_id))]

\* Variant: the sort keys in the other order, month before year.
RunBeforeMonthFirst(runs, a, b) ==
    \/ runs[a].month > runs[b].month
    \/ runs[a].month = runs[b].month /\ runs[a].year > runs[b].year
    \/ runs[a].month = runs[b].month /\ runs[a].year = runs[b].year /\ a < b

\* ORDER BY year DESC, month DESC; rows equal on both keys come back in
\* rowid order.
RunBefore(runs, a, b) ==
    \/ runs[a].year > runs[b].year
    \/ runs[a].year = runs[b].year /\ runs[a].month > runs[b].month
    \/ runs[a].year = runs[b].year /\ runs[a].month = runs[b].month /\ a < b

RECURSIVE OrderedRunIds(_, _)
OrderedRunIds(runs, S) ==
    IF S = {} THEN <<>>
    ELSE LET first == CHOOSE a \in S : \A b \in S \ {a} : RunBefore(runs, a, b)
         IN  <<first>> \o OrderedRunIds(runs, S \ {first})

\* get_payrolls and the summaries list_payrolls builds from its rows (the
\* approved_at timestamp is left out).
get_payrolls(runs) ==
    LET ids == OrderedRunIds(runs, DOMAIN runs)
    IN  [n \in 1..Len(ids) |->
            [id |-> ids[n], month |-> runs[ids[n]].month, year |-> runs[ids[n]].year,
             total_cost |-> runs[ids[n]].total_cost]]

\* ------------------------------------------------------------------------
\* State
\* ------------------------------------------------------------------------
VARIABLES
    employees,      \* committed employees table: id -> row
    payrolls,       \* committed payrolls table: id -> row
    payroll_items,  \* committed payroll_items table: id -> row
    txEmployees,    \* employees rows written and not yet committed
    txPayrolls,     \* payrolls rows written and not yet committed
    txItems,        \* payroll_items rows written and not yet committed
    lock,           \* the process whose connection holds the write lock, or 0
    pc,             \* position of each request
    args,           \* operation and arguments of each request
    local,          \* local variables of each request
    ret,            \* outcome of each finished request
    conn,           \* whether the request's connection is open
    savedFrom,      \* run id -> the preview handed to save_payroll for it
    faults,         \* storage failures injected so far
    calls           \* requests started so far

vars == <<employees, payrolls, payroll_items, txEmployees, txPayrolls, txItems, lock,
          pc, args, local, ret, conn, savedFrom, faults, calls>>

store == <<employees, payrolls, payroll_items>>
tx == <<txEmployees, txPayrolls, txItems>>

NoArgs == [op |-> "none"]
NoLocal == [at |-> "none"]
NoRet == [status |-> "none"]

Init ==
    /\ employees = EmptyTable
    /\ payrolls = EmptyTable
    /\ payroll_items = EmptyTable
    /\ txEmployees = EmptyTable
    /\ txPayrolls = EmptyTable
    /\ txItems = EmptyTable
    /\ lock = 0
    /\ pc = [p \in Procs |-> "idle"]
    /\ args = [p \in Procs |-> NoArgs]
    /\ local = [p \in Procs |-> NoLocal]
    /\ ret = [p \in Procs |-> NoRet]
    /\ conn = [p \in Procs |-> FALSE]
    /\ savedFrom = EmptyTable
    /\ faults = 0
    /\ calls = 0

\* An idle thread takes a request.
Begin(p) ==
    /\ pc[p] = "idle"
    /\ calls < MaxCalls
    /\ calls' = calls + 1

\* The request of p ends with a result: connection closed by the code.
Finish(p, a, r) ==
    /\ pc' = [pc EXCEPT ![p] = "done"]
    /\ args' = [args EXCEPT ![p] = a]
    /\ local' = [local EXCEPT ![p] = NoLocal]
    /\ ret' = [ret EXCEPT ![p] = r]
    /\ conn' = [conn EXCEPT ![p] = FALSE]

\* A statement of p raises: the exception leaves the function before
\* conn.commit() and conn.close(), so the connection stays open with its
\* transaction (and the write lock it took) pending.
Raise(p, a) ==
    /\ pc' = [pc EXCEPT ![p] = "raised"]
    /\ args' = [args EXCEPT ![p] = a]
    /\ local' = [local EXCEPT ![p] = NoLocal]
    /\ ret' = [ret EXCEPT ![p] = NoRet]
    /\ conn' = [conn EXCEPT ![p] = TRUE]
    /\ lock' = p

\* The write lock is free for p's connection.
CanWrite(p) == lock = 0 \/ lock = p

\* A write statement of p finds the write lock held by another connection
\* for longer than the busy timeout: "database is locked" is raised, and
\* the connection stays open without the lock.
RaiseBusy(p, a) ==
    /\ pc' = [pc EXCEPT ![p] = "raised"]
    /\ args' = [args EXCEPT ![p] = a]
    /\ local' = [local EXCEPT ![p] = NoLocal]
    /\ ret' = [ret EXCEPT ![p] = NoRet]
    /\ conn' = [conn EXCEPT ![p] = TRUE]
    /\ UNCHANGED lock

\* Variant: the connection autocommits every statement.
AfterStatementAutocommit(committed, pending) == pending

\* sqlite3.connect with the default isolation level: a row written by an
\* INSERT stays pending on the connection and the committed table is the
\* same after the statement as before it.
AfterStatement(committed, pending) == committed

\* Variant: the commit leaves only the rows of this transaction.
CommitReplacing(committed, pending) == pending

\* conn.commit(): the pending rows become part of the committed table.
Commit(committed, pending) == pending @@ committed

\* SQL UPDATE of the row with the given id.
UpdateRow(emps, id, data) == [emps EXCEPT ![id] = data]

\* Approvals that have not yet committed or failed.
Approving == { q \in Procs : pc[q] \in {"save_run", "save_items"} }

\* ------------------------------------------------------------------------
\* Employee operations
\* ------------------------------------------------------------------------
\* POST /employees with a body the request model rejects (422): the core
\* is never called.
CreateRejected(p, body) ==
    /\ Begin(p)
    /\ ~ValidCreate(body)
    /\ Finish(p, [op |-> "create", body |-> body], [status |-> "invalid"])
    /\ UNCHANGED <<store, tx, lock, savedFrom, faults>>

\* create_employee, the INSERT and emp_id = cur.lastrowid.  The statement
\* opens the connection's transaction and takes the write lock; the row is
\* pending until the commit.
CreateEmployee(p, body) ==
    /\ Begin(p)
    /\ ValidCreate(body)
    /\ Cardinality(DOMAIN employees) < MaxEmployees
    /\ LET emp == EmployeeCreate(body)
           a == [op |-> "create", body |-> body]
           pending == InsertRow(employees, emp)
       IN  IF ~CanWrite(p)
           THEN /\ RaiseBusy(p, a)
                /\ UNCHANGED <<employees, txEmployees>>
           ELSE IF ViolatesNotNull(emp)
           THEN /\ Raise(p, a)
                /\ UNCHANGED <<employees, txEmployees>>
           ELSE /\ txEmployees' = [i \in DOMAIN pending \ DOMAIN employees |-> pending[i]]
                /\ employees' = AfterStatement(employees, pending)
                /\ pc' = [pc EXCEPT ![p] = "create_commit"]
                /\ args' = [args EXCEPT ![p] = a]
                /\ local' = [local EXCEPT ![p] = [emp_id |-> NextId(employees)]]
                /\ conn' = [conn EXCEPT ![p] = TRUE]
                /\ lock' = p
                /\ UNCHANGED ret
    /\ UNCHANGED <<payrolls, payroll_items, txPayrolls, txItems, savedFrom, faults>>

\* create_employee: conn.commit(), conn.close(), return emp_id.
CreateCommit(p) ==
    /\ pc[p] = "create_commit"
    /\ employees' = Commit(employees, txEmployees)
    /\ txEmployees' = EmptyTable
    /\ lock' = 0
    /\ Finish(p, args[p], [status |-> "ok", val |-> local[p].emp_id])
    /\ UNCHANGED <<payrolls, payroll_items, txPayrolls, txItems, savedFrom, faults, calls>>

\* GET /employees/{id}: get_employee.
GetEmployee(p, id) ==
    /\ Begin(p)
    /\ Finish(p, [op |-> "get_employee", id |-> id],
              [status |-> "ok", val |-> get_employee(employees, id)])
    /\ UNCHANGED <<store, tx, lock, savedFrom, faults>>

\* PUT /employees/{id} with a body the request model rejects (422).
UpdateRejected(p, id, body) ==
    /\ Begin(p)
    /\ ~ValidUpdate(body)
    /\ Finish(p, [op |-> "update", id |-> id, body |-> body], [status |-> "invalid"])
    /\ UNCHANGED <<store, tx, lock, savedFrom, faults>>

\* update_employee, first half: current = get_employee(employee_id) on a
\* connection of its own, closed before the merge.
UpdateRead(p, id, body) ==
    /\ Begin(p)
    /\ ValidUpdate(body)
    /\ LET current == get_employee(employees, id)
           a == [op |-> "update", id |-> id, body |-> body]
       IN  IF ~current.found
           THEN Finish(p, a, [status |-> "ok", val |-> FALSE])
           ELSE /\ pc' = [pc EXCEPT ![p] = "upd_write"]
                /\ args' = [args EXCEPT ![p] = a]
                /\ local' = [local EXCEPT ![p] = [current |-> current.row]]
                /\ UNCHANGED <<ret, conn>>
    /\ UNCHANGED <<store, tx, lock, savedFrom, faults>>

\* update_employee, second half: the merge, then UPDATE of all seven
\* columns on a second connection.  The statement takes the write lock and
\* the new row is pending until the commit.
UpdateWrite(p) ==
    /\ pc[p] = "upd_write"
    /\ CanWrite(p)
    /\ LET data == MergeUpdate(local[p].current, args[p].body)
           pending == UpdateRow(employees, args[p].id, data)
       IN  IF ViolatesNotNull(data)
           THEN /\ Raise(p, args[p])
                /\ UNCHANGED <<employees, txEmployees>>
           ELSE /\ txEmployees' = [i \in {args[p].id} |-> pending[i]]
                /\ employees' = AfterStatement(employees, pending)
                /\ pc' = [pc EXCEPT ![p] = "upd_commit"]
                /\ conn' = [conn EXCEPT ![p] = TRUE]
                /\ lock' = p
                /\ UNCHANGED <<args, local, ret>>
    /\ UNCHANGED <<payrolls, payroll_items, txPayrolls, txItems, savedFrom, faults, calls>>

\* update_employee: conn.commit(), conn.close(), return True.
UpdateCommit(p) ==
    /\ pc[p] = "upd_commit"
    /\ employees' = Commit(employees, txEmployees)
    /\ txEmployees' = EmptyTable
    /\ lock' = 0
    /\ Finish(p, args[p], [status |-> "ok", val |-> TRUE])
    /\ UNCHANGED <<payrolls, payroll_items, txPayrolls, txItems, savedFrom, faults, calls>>

\* update_employee's UPDATE or save_payroll's first INSERT times out waiting
\* for the write lock.
WriteBusy(p) ==
    /\ pc[p] \in {"upd_write", "save_run"}
    /\ ~CanWrite(p)
    /\ RaiseBusy(p, args[p])
    /\ UNCHANGED <<store, tx, savedFrom, faults, calls>>

\* terminate_employee, the conditional UPDATE.  The statement takes the
\* write lock whether or not a row matches; the changed row is pending
\* until the commit.
TerminateEmployee(p, id) ==
    /\ Begin(p)
    /\ LET updated == TerminateMatches(employees, id)
           a == [op |-> "terminate", id |-> id]
           pending == IF updated
                      THEN UpdateRow(employees, id, TerminateRow(employees[id]))
                      ELSE employees
       IN  IF ~CanWrite(p)
           THEN /\ RaiseBusy(p, a)
                /\ UNCHANGED <<employees, txEmployees>>
           ELSE /\ txEmployees' = [i \in (IF updated THEN {id} ELSE {}) |-> pending[i]]
                /\ employees' = AfterStatement(employees, pending)
                /\ pc' = [pc EXCEPT ![p] = "term_commit"]
                /\ args' = [args EXCEPT ![p] = a]
                /\ local' = [local EXCEPT ![p] = [rowcount |-> IF updated THEN 1 ELSE 0]]
                /\ conn' = [conn EXCEPT ![p] = TRUE]
                /\ lock' = p
                /\ UNCHANGED ret
    /\ UNCHANGED <<payrolls, payroll_items, txPayrolls, txItems, savedFrom, faults>>

\* terminate_employee: conn.commit(), updated = cur.rowcount > 0,
\* conn.close(), return updated.
TerminateCommit(p) ==
    /\ pc[p] = "term_commit"
    /\ employees' = Commit(employees, txEmployees)
    /\ txEmployees' = EmptyTable
    /\ lock' = 0
    /\ Finish(p, args[p], [status |-> "ok", val |-> local[p].rowcount > 0])
    /\ UNCHANGED <<payrolls, payroll_items, txPayrolls, txItems, savedFrom, faults, calls>>

\* ------------------------------------------------------------------------
\* Payroll operations
\* ------------------------------------------------------------------------
\* GET /payroll/preview: preview_payroll, nothing persisted.
PreviewPayroll(p, period) ==
    /\ Begin(p)
    /\ Finish(p, [op |-> "preview", month |-> period[1], year |-> period[2]],
              [status |-> "ok", val |-> preview_payroll(employees, period[1], period[2])])
    /\ UNCHANGED <<store, tx, lock, savedFrom, faults>>

\* POST /payroll/approve, first half: preview = crud.preview_payroll(...).
ApprovePreview(p, period) ==
    /\ Begin(p)
    /\ Cardinality(DOMAIN payrolls) + Cardinality(Approving) < MaxRuns
    /\ pc' = [pc EXCEPT ![p] = "save_run"]
    /\ args' = [args EXCEPT ![p] = [op |-> "approve", month |-> period[1], year |-> period[2]]]
    /\ local' = [local EXCEPT ![p] =
                    [preview |-> preview_payroll(employees, period[1], period[2])]]
    /\ UNCHANGED <<store, tx, lock, ret, conn, savedFrom, faults>>

\* save_payroll: INSERT INTO payrolls, payroll_id = cur.lastrowid.  The
\* statement opens the connection's transaction and takes the write lock.
SaveRun(p) ==
    /\ pc[p] = "save_run"
    /\ CanWrite(p)
    /\ LET preview == local[p].preview
           payroll_id == NextId(payrolls)
           pending == InsertRow(payrolls, PayrollRow(preview))
       IN  /\ txPayrolls' = [i \in DOMAIN pending \ DOMAIN payrolls |-> pending[i]]
           /\ payrolls' = AfterStatement(payrolls, pending)
           /\ local' = [local EXCEPT ![p] =
                           [preview |-> preview, payroll_id |-> payroll_id, k |-> 1]]
           /\ savedFrom' = [i \in DOMAIN savedFrom \cup {payroll_id} |->
                               IF i = payroll_id THEN preview ELSE savedFrom[i]]
    /\ lock' = p
    /\ conn' = [conn EXCEPT ![p] = TRUE]
    /\ pc' = [pc EXCEPT ![p] = "save_items"]
    /\ UNCHANGED <<employees, payroll_items, txEmployees, txItems, args, ret, faults, calls>>

\* save_payroll: INSERT INTO payroll_items for the k-th item of the preview.
SaveItem(p) ==
    /\ pc[p] = "save_items"
    /\ local[p].k <= Len(local[p].preview.items)
    /\ LET item == local[p].preview.items[local[p].k]
           pending == InsertRow(Commit(payroll_items, txItems),
                                ItemRow(local[p].payroll_id, item))
       IN  /\ txItems' = [i \in DOMAIN pending \ DOMAIN payroll_items |-> pending[i]]
           /\ payroll_items' = AfterStatement(payroll_items, pending)
    /\ local' = [local EXCEPT ![p].k = @ + 1]
    /\ UNCHANGED <<employees, payrolls, txEmployees, txPayrolls, lock, pc, args, ret, conn,
                   savedFrom, faults, calls>>

\* save_payroll: an INSERT INTO payroll_items fails in the storage layer
\* (disk full, I/O error).  SQLite rolls the whole transaction back at once
\* and gives up the write lock; the exception leaves save_payroll with the
\* connection open.
SaveItemFails(p) ==
    /\ pc[p] = "save_items"
    /\ local[p].k <= Len(local[p].preview.items)
    /\ faults < MaxFaults
    /\ faults' = faults + 1
    /\ txPayrolls' = EmptyTable
    /\ txItems' = EmptyTable
    /\ lock' = 0
    /\ pc' = [pc EXCEPT ![p] = "raised"]
    /\ UNCHANGED <<store, txEmployees, args, local, ret, conn, savedFrom, calls>>

\* save_payroll: conn.commit(), conn.close(), return payroll_id.
SaveCommit(p) ==
    /\ pc[p] = "save_items"
    /\ local[p].k > Len(local[p].preview.items)
    /\ payrolls' = Commit(payrolls, txPayrolls)
    /\ payroll_items' = Commit(payroll_items, txItems)
    /\ txPayrolls' = EmptyTable
    /\ txItems' = EmptyTable
    /\ lock' = 0
    /\ Finish(p, args[p], [status |-> "ok", val |-> local[p].payroll_id])
    /\ UNCHANGED <<employees, txEmployees, savedFrom, faults, calls>>

\* The connection abandoned by an exception is finalized once the
\* exception has been released: its pending transaction, if it still has
\* one, is rolled back with the write lock released, and the request ends
\* with the storage error.
Finalize(p) ==
    /\ pc[p] = "raised"
    /\ IF lock = p
       THEN /\ txEmployees' = EmptyTable
            /\ txPayrolls' = EmptyTable
            /\ txItems' = EmptyTable
            /\ lock' = 0
       ELSE UNCHANGED <<tx, lock>>
    /\ Finish(p, args[p], [status |-> "error"])
    /\ UNCHANGED <<store, savedFrom, faults, calls>>

\* GET /payrolls/{id}, get_payroll first statement: the payroll row.
GetPayrollRun(p, id) ==
    /\ Begin(p)
    /\ LET a == [op |-> "get_payroll", id |-> id]
       IN  IF id \notin DOMAIN payrolls
           THEN Finish(p, a, [status |-> "not_found"])
           ELSE /\ pc' = [pc EXCEPT ![p] = "get_items"]
                /\ args' = [args EXCEPT ![p] = a]
                /\ local' = [local EXCEPT ![p] = [payroll |-> payrolls[id]]]
                /\ conn' = [conn EXCEPT ![p] = TRUE]
                /\ UNCHANGED ret
    /\ UNCHANGED <<store, tx, lock, savedFrom, faults>>

\* get_payroll second statement: the joined item rows; close; result.
GetPayrollItems(p) ==
    /\ pc[p] = "get_items"
    /\ Finish(p, args[p],
              [status |-> "ok",
               val |-> PayrollResult(local[p].payroll,
                                     JoinedItems(payroll_items, employees, args[p].id))])
    /\ UNCHANGED <<store, tx, lock, savedFrom, faults, calls>>

\* GET /payrolls: get_payrolls.
ListPayrolls(p) ==
    /\ Begin(p)
    /\ Finish(p, [op |-> "list_payrolls"], [status |-> "ok", val |-> get_payrolls(payrolls)])
    /\ UNCHANGED <<store, tx, lock, savedFrom, faults>>

\* The response has been sent; the thread takes the next request.
Return(p) ==
    /\ pc[p] = "done"
    /\ pc' = [pc EXCEPT ![p] = "idle"]
    /\ args' = [args EXCEPT ![p] = NoArgs]
    /\ ret' = [ret EXCEPT ![p] = NoRet]
    /\ UNCHANGED <<store, tx, lock, local, conn, savedFrom, faults, calls>>

RunIds == 1..(MaxRuns + 1)

Next ==
    \E p \in Procs :
        \/ \E body \in CreateBodies : CreateRejected(p, body)
        \/ \E body \in CreateBodies : CreateEmployee(p, body)
        \/ CreateCommit(p)
        \/ \E id \in EmployeeIds : GetEmployee(p, id)
        \/ \E id \in EmployeeIds, body \in UpdateBodies : UpdateRejected(p, id, body)
        \/ \E id \in EmployeeIds, body \in UpdateBodies : UpdateRead(p, id, body)
        \/ UpdateWrite(p)
        \/ UpdateCommit(p)
        \/ WriteBusy(p)
        \/ \E id \in EmployeeIds : TerminateEmployee(p, id)
        \/ TerminateCommit(p)
        \/ \E period \in Periods : PreviewPayroll(p, period)
        \/ \E period \in Periods : ApprovePreview(p, period)
        \/ SaveRun(p)
        \/ SaveItem(p)
        \/ SaveItemFails(p)
        \/ SaveCommit(p)
        \/ Finalize(p)
        \/ \E id \in RunIds : GetPayrollRun(p, id)
        \/ GetPayrollItems(p)
        \/ ListPayrolls(p)
        \/ Return(p)

Spec == Init /\ [][Next]_vars

\* ------------------------------------------------------------------------
\* The calculator over a range of salaries
\* ------------------------------------------------------------------------
\* Gross salaries the calculator is applied to: whole multiples of 10.
CalcSalaries == { 10 * t : t \in 0..MaxSalaryTens }

\* The store after one createEmployee with a salary of CalcSalaries.
InitCalc ==
    /\ \E salary \in CalcSalaries :
          employees = InsertRow(EmptyTable, EmployeeCreate([name |-> "ann", salary |-> salary]))
    /\ payrolls = EmptyTable
    /\ payroll_items = EmptyTable
    /\ txEmployees = EmptyTable
    /\ txPayrolls = EmptyTable
    /\ txItems = EmptyTable
    /\ lock = 0
    /\ pc = [p \in Procs |-> "idle"]
    /\ args = [p \in Procs |-> NoArgs]
    /\ local = [p \in Procs |-> NoLocal]
    /\ ret = [p \in Procs |-> NoRet]
    /\ conn = [p \in Procs |-> FALSE]
    /\ savedFrom = EmptyTable
    /\ faults = 0
    /\ calls = 0

\* Previews only: each applies _calculate_pay to the stored employee.
NextCalc ==
    \E p \in Procs :
        \/ \E period \in Periods : PreviewPayroll(p, period)
        \/ Return(p)

SpecCalc == InitCalc /\ [][NextCalc]_vars

\* ------------------------------------------------------------------------
\* The service started on a store that already holds an employee
\* ------------------------------------------------------------------------
\* The store after createEmployee({name: "ann", salary: 1000}).
InitSeeded ==
    /\ employees = InsertRow(EmptyTable, EmployeeCreate([name |-> "ann", salary |-> 1000]))
    /\ payrolls = EmptyTable
    /\ payroll_items = EmptyTable
    /\ txEmployees = EmptyTable
    /\ txPayrolls = EmptyTable
    /\ txItems = EmptyTable
    /\ lock = 0
    /\ pc = [p \in Procs |-> "idle"]
    /\ args = [p \in Procs |-> NoArgs]
    /\ local = [p \in Procs |-> NoLocal]
    /\ ret = [p \in Procs |-> NoRet]
    /\ conn = [p \in Procs |-> FALSE]
    /\ savedFrom = EmptyTable
    /\ faults = 0
    /\ calls = 0

\* Every request except createEmployee: the staff is the seeded employee.
NextSeeded ==
    \E p \in Procs :
        \/ \E id \in EmployeeIds : GetEmployee(p, id)
        \/ \E id \in EmployeeIds, body \in UpdateBodies : UpdateRejected(p, id, body)
        \/ \E id \in EmployeeIds, body \in UpdateBodies : UpdateRead(p, id, body)
        \/ UpdateWrite(p)
        \/ UpdateCommit(p)
        \/ WriteBusy(p)
        \/ \E id \in EmployeeIds : TerminateEmployee(p, id)
        \/ TerminateCommit(p)
        \/ \E period \in Periods : PreviewPayroll(p, period)
        \/ \E period \in Periods : ApprovePreview(p, period)
        \/ SaveRun(p)
        \/ SaveItem(p)
        \/ SaveItemFails(p)
        \/ SaveCommit(p)
        \/ Finalize(p)
        \/ \E id \in RunIds : GetPayrollRun(p, id)
        \/ GetPayrollItems(p)
        \/ ListPayrolls(p)
        \/ Return(p)

SpecSeeded == InitSeeded /\ [][NextSeeded]_vars

\* ------------------------------------------------------------------------
\* Properties
\* ------------------------------------------------------------------------
\* The stored items of run r in insertion order, without their keys.
StoredItems(items, r) ==
    LET ids == AscendingSeq({ i \in DOMAIN items : items[i].payroll_id = r })
    IN  [n \in 1..Len(ids) |->
            [employee_id |-> items[ids[n]].employee_id, gross |-> items[ids[n]].gross,
             deductions |-> items[ids[n]].deductions, net |-> items[ids[n]].net]]

\* The items of a preview as save_payroll stores them (the name is not stored).
PreviewItems(preview) ==
    [n \in 1..Len(preview.items) |->
        [employee_id |-> preview.items[n].employee_id, gross |-> preview.items[n].gross,
         deductions |-> preview.items[n].deductions, net |-> preview.items[n].net]]

Finished(p, op) == pc[p] = "done" /\ args[p].op = op /\ ret[p].status = "ok"

\* C1: in every reachable store state, previewPayroll(month, year) returns
\* exactly one item for each employee whose status is exactly 'active', no
\* item for any other employee, and carries month and year through.
C1_PreviewSelectsActive ==
    \A period \in Periods :
        LET pv == preview_payroll(employees, period[1], period[2])
        IN  /\ pv.month = period[1]
            /\ pv.year = period[2]
            /\ \A n \in 1..Len(pv.items) : pv.items[n].employee_id \in DOMAIN employees
            /\ \A i \in DOMAIN employees :
                  Cardinality({ n \in 1..Len(pv.items) : pv.items[n].employee_id = i })
                    = IF employees[i]["status"] = "active" THEN 1 ELSE 0

\* A preview of one item has been returned from a store that holds an
\* active employee next to one whose status is another value.
C1_Witness ==
    \E p \in Procs :
        /\ Finished(p, "preview")
        /\ ret[p].val = preview_payroll(employees, args[p].month, args[p].year)
        /\ Len(ret[p].val.items) = 1
        /\ \E i \in DOMAIN employees : employees[i]["status"] \in {"on_leave", "exited", "Active"}

\* C2: approvePayroll is atomic.  Whenever a run row is visible in the
\* committed store, every item of the preview it was saved from is visible
\* too, and a reader that found the run row gets all of its items; this
\* includes the states during the item inserts and after one of them failed.
C2_ApproveAtomic ==
    /\ \A r \in DOMAIN payrolls :
          StoredItems(payroll_items, r) = PreviewItems(savedFrom[r])
    /\ \A p \in Procs :
          Finished(p, "get_payroll") =>
              Len(ret[p].val.items) = Len(savedFrom[args[p].id].items)

\* An item insert of an approval has failed after an earlier item was
\* written: the transaction has been rolled back and neither the run row
\* nor the earlier item is visible.
C2_Witness ==
    \E p \in Procs :
        /\ pc[p] = "raised"
        /\ args[p].op = "approve"
        /\ "k" \in DOMAIN local[p]
        /\ local[p].k > 1
        /\ local[p].payroll_id \notin DOMAIN payrolls
        /\ \A i \in DOMAIN payroll_items : payroll_items[i].payroll_id # local[p].payroll_id
        /\ DOMAIN txPayrolls = {}
        /\ DOMAIN txItems = {}

\* The request of p takes the step that ends operation op with a result.
Returns(p, op) ==
    /\ pc[p] # "done"
    /\ pc'[p] = "done"
    /\ args'[p].op = op
    /\ ret'[p].status = "ok"

\* C3: no concurrent update is lost.  When two updateEmployee calls on the
\* same employee, each supplying a different field, have both succeeded, the
\* stored row carries the values supplied by both.
C3_NoLostUpdate ==
    \A p, q \in Procs :
        ( /\ p # q
          /\ Finished(p, "update") /\ ret[p].val
          /\ Finished(q, "update") /\ ret[q].val
          /\ args[p].id = args[q].id
          /\ DOMAIN args[p].body \cap DOMAIN args[q].body = {} )
        => \A f \in DOMAIN args[p].body :
              employees[args[p].id][f] = args[p].body[f]

\* C4: a persisted run is immutable history.  No step changes the month,
\* year or total_cost of a committed run, removes it, or changes the set of
\* its stored items.
C4_RunsImmutable ==
    [][\A r \in DOMAIN payrolls :
          /\ r \in DOMAIN payrolls'
          /\ payrolls'[r] = payrolls[r]
          /\ StoredItems(payroll_items', r) = StoredItems(payroll_items, r)]_vars

\* A committed run holds an item of an employee who has since been given
\* another salary or has left the active state.
C4_Witness ==
    \E i \in DOMAIN payroll_items :
        /\ payroll_items[i].payroll_id \in DOMAIN payrolls
        /\ \/ employees[payroll_items[i].employee_id]["salary"] # payroll_items[i].gross
           \/ employees[payroll_items[i].employee_id]["status"] # "active"

\* C5: the step on which approvePayroll returns run id r leaves a run r
\* whose month, year, total_cost and items equal those of the preview the
\* approval computed, and getPayrollRun(r) returns that total_cost.
C5_ApprovePersistsPreview ==
    [][\A p \in Procs :
          Returns(p, "approve") =>
              LET r == ret'[p].val
                  preview == local[p].preview
                  got == get_payroll(payrolls', payroll_items', employees', r)
              IN  /\ r \in DOMAIN payrolls'
                  /\ payrolls'[r].month = args[p].month
                  /\ payrolls'[r].year = args[p].year
                  /\ payrolls'[r].total_cost = preview.total_cost
                  /\ StoredItems(payroll_items', r) = PreviewItems(preview)
                  /\ got.found
                  /\ got.val.total_cost = preview.total_cost]_vars

\* An approval has returned the id of a run with a positive total.
C5_Witness ==
    \E p \in Procs :
        /\ Finished(p, "approve")
        /\ payrolls[ret[p].val].total_cost > 0
        /\ StoredItems(payroll_items, ret[p].val) # <<>>

\* C6: approvePayroll always creates a new run.  The id it returns was not
\* the id of a run before, every earlier run is still stored afterwards, and
\* getPayrollRun finds the new run and each earlier one.
C6_ApproveCreatesNewRun ==
    [][\A p \in Procs :
          Returns(p, "approve") =>
              /\ ret'[p].val \notin DOMAIN payrolls
              /\ DOMAIN payrolls' = DOMAIN payrolls \cup {ret'[p].val}
              /\ \A r \in DOMAIN payrolls' :
                    get_payroll(payrolls', payroll_items', employees', r).found]_vars

\* Two runs of the same month and year are stored.
C6_Witness ==
    \E r1, r2 \in DOMAIN payrolls :
        /\ r1 # r2
        /\ payrolls[r1].month = payrolls[r2].month
        /\ payrolls[r1].year = payrolls[r2].year

\* C7: terminateEmployee on an existing employee whose status is not
\* 'exited' returns true and sets the status to 'exited', every other field
\* unchanged; on an employee that is already 'exited' it returns false and
\* the status stays 'exited'.
C7_TerminateIdempotent ==
    [][\A p \in Procs :
          (Returns(p, "terminate") /\ args'[p].id \in DOMAIN employees) =>
              LET id == args'[p].id
              IN  IF employees[id]["status"] # "exited"
                  THEN /\ ret'[p].val = TRUE
                       /\ employees'[id]["status"] = "exited"
                       /\ \A f \in Fields \ {"status"} : employees'[id][f] = employees[id][f]
                  ELSE /\ ret'[p].val = FALSE
                       /\ employees'[id] = employees[id]
                       /\ employees'[id]["status"] = "exited"]_vars

\* A second terminateEmployee on an exited employee has returned false.
C7_Witness ==
    \E p \in Procs :
        /\ Finished(p, "terminate")
        /\ ret[p].val = FALSE
        /\ args[p].id \in DOMAIN employees
        /\ employees[args[p].id]["status"] = "exited"

BodyStatus(body) == IF "status" \in DOMAIN body THEN body["status"] ELSE "unset"

\* C9: createEmployee with a valid input (status omitted or given) returns an
\* id no employee has had before, getEmployee(id) then returns a record equal
\* to the input on every field, and the stored status is 'active' when the
\* input omitted it.  Employee ids are never given up, and such a create
\* fails only when the store is locked.
C9_CreateRoundTrip ==
    [][/\ DOMAIN employees \subseteq DOMAIN employees'
       /\ \A p \in Procs :
            /\ Returns(p, "create") =>
                  LET id == ret'[p].val
                      body == args'[p].body
                      got == get_employee(employees', id)
                  IN  /\ id \notin DOMAIN employees
                      /\ got.found
                      /\ got.id = id
                      /\ \A f \in DOMAIN body : got.row[f] = body[f]
                      /\ \A f \in Fields \ (DOMAIN body \cup {"status"}) : got.row[f] = None
                      /\ "status" \notin DOMAIN body => got.row["status"] = "active"
            /\ ( /\ pc[p] = "idle" /\ pc'[p] = "raised" /\ args'[p].op = "create"
                 /\ BodyStatus(args'[p].body) # None )
               => ~CanWrite(p)]_vars

\* A create that omitted the status has returned the id of a second employee.
C9_Witness ==
    \E p \in Procs :
        /\ Finished(p, "create")
        /\ "status" \notin DOMAIN args[p].body
        /\ ret[p].val = 2
        /\ employees[2]["status"] = "active"
        /\ employees[1]["name"] # employees[2]["name"]

\* C10: every stored employee's status is one of 'active', 'on_leave',
\* 'exited'.
C10_StatusInDomain ==
    \A i \in DOMAIN employees :
        employees[i]["status"] \in {"active", "on_leave", "exited"}

\* C11: every stored employee's salary is >= 0 (never NULL, never
\* negative), whatever creates and updates that pass the request models
\* have run, an update with salary explicitly null among them.
C11_SalaryNonNegative ==
    \A i \in DOMAIN employees :
        /\ employees[i]["salary"] # NoneReal
        /\ employees[i]["salary"] >= 0

\* An update that supplied salary as null has ended with a storage error
\* on an existing employee.
C11_Witness ==
    \E p \in Procs :
        /\ pc[p] = "done"
        /\ args[p].op = "update"
        /\ ret[p].status = "error"
        /\ args[p].id \in DOMAIN employees
        /\ "salary" \in DOMAIN args[p].body
        /\ args[p].body["salary"] = NoneReal

\* C12: once an operation has ended, by a return, a not-found result or a
\* storage error raised in the middle of it, the connection it opened is
\* closed.
C12_ConnectionsReleased ==
    \A p \in Procs : pc[p] \in {"idle", "done", "raised"} => ~conn[p]

\* The sum of the net values of a sequence of items, from the last item.
RECURSIVE NetTotal(_)
NetTotal(items) ==
    IF Len(items) = 0 THEN 0
    ELSE NetTotal(SubSeq(items, 1, Len(items) - 1)) + items[Len(items)].net

\* No employee id occurs in two items.
DistinctEmployees(items) ==
    \A m, n \in 1..Len(items) : items[m].employee_id = items[n].employee_id => m = n

\* C13: the total_cost of every preview previewPayroll returns and of every
\* persisted run equals the sum of the net values of its items (0 without
\* items), and no employee id appears in two items of one preview or run.
C13_TotalIsSumOfNet ==
    /\ \A period \in Periods :
          LET pv == preview_payroll(employees, period[1], period[2])
          IN  /\ pv.total_cost = NetTotal(pv.items)
              /\ DistinctEmployees(pv.items)
    /\ \A p \in Procs :
          Finished(p, "preview") =>
              /\ ret[p].val.total_cost = NetTotal(ret[p].val.items)
              /\ DistinctEmployees(ret[p].val.items)
    /\ \A r \in DOMAIN payrolls :
          /\ payrolls[r].total_cost = NetTotal(StoredItems(payroll_items, r))
          /\ DistinctEmployees(StoredItems(payroll_items, r))

\* A run of two items is stored.
C13_Witness ==
    \E r \in DOMAIN payrolls :
        /\ Len(StoredItems(payroll_items, r)) = 2
        /\ payrolls[r].total_cost > 0

\* The item the calculator must give for employee i of the store.
ItemAsSpecified(item, i) ==
    /\ item.employee_id = i
    /\ item.name = employees[i]["name"]
    /\ item.gross = employees[i]["salary"]
    /\ 10 * item.deductions = item.gross
    /\ item.net = item.gross - item.deductions
    /\ 10 * item.net = 9 * item.gross

\* C14: for every non-negative gross salary (a whole multiple of 10) the
\* calculator's item has gross = salary, deductions = 10% of gross and
\* net = gross - deductions = 90% of gross, and two previews of the same
\* employee snapshot return equal items.
C14_CalculatorTenPercent ==
    /\ \A i \in DOMAIN employees :
          ItemAsSpecified(_calculate_pay(i, employees[i]), i)
    /\ \A p \in Procs :
          Finished(p, "preview") =>
              \A n \in 1..Len(ret[p].val.items) :
                  ItemAsSpecified(ret[p].val.items[n], ret[p].val.items[n].employee_id)
    /\ \A p, q \in Procs :
          (Finished(p, "preview") /\ Finished(q, "preview")) =>
              ret[p].val.items = ret[q].val.items

\* Two previews have returned the item of a salary of 70: 7 deducted, 63 net.
C14_Witness ==
    \A p \in Procs :
        /\ Finished(p, "preview")
        /\ Len(ret[p].val.items) = 1
        /\ ret[p].val.items[1].gross = 70
        /\ ret[p].val.items[1].deductions = 7
        /\ ret[p].val.items[1].net = 63

\* A list of run summaries is in order: year descending and, within one
\* year, month descending.
YearMonthDescending(list) ==
    \A n \in 1..(Len(list) - 1) :
        \/ list[n].year > list[n + 1].year
        \/ list[n].year = list[n + 1].year /\ list[n].month >= list[n + 1].month

\* C15: listPayrollRuns returns every persisted run exactly once, with its
\* stored month, year and total_cost, ordered by year descending and within
\* the same year by month descending, whatever the order of the approvals.
C15_ListOrdered ==
    /\ LET list == get_payrolls(payrolls)
       IN  /\ YearMonthDescending(list)
           /\ \A r \in DOMAIN payrolls :
                 Cardinality({ n \in 1..Len(list) : list[n].id = r }) = 1
           /\ \A n \in 1..Len(list) :
                 /\ list[n].id \in DOMAIN payrolls
                 /\ list[n].month = payrolls[list[n].id].month
                 /\ list[n].year = payrolls[list[n].id].year
                 /\ list[n].total_cost = payrolls[list[n].id].total_cost
    /\ \A p \in Procs :
          Finished(p, "list_payrolls") =>
              /\ YearMonthDescending(ret[p].val)
              /\ \A m, n \in 1..Len(ret[p].val) :
                    ret[p].val[m].id = ret[p].val[n].id => m = n
              /\ \A n \in 1..Len(ret[p].val) : ret[p].val[n].id \in DOMAIN payrolls

\* A list of two runs has been returned in which the run approved second
\* comes first by its later year, although its month is the smaller one.
C15_Witness ==
    \E p \in Procs :
        /\ Finished(p, "list_payrolls")
        /\ Len(ret[p].val) = 2
        /\ ret[p].val[1].id = 2
        /\ ret[p].val[1].year > ret[p].val[2].year
        /\ ret[p].val[1].month < ret[p].val[2].month

\* C16: getPayrollRun(id) returns one item per stored item of the run, each
\* with the employee's name as stored at read time and with the gross,
\* deductions and net stored for the run; a rename after the approval shows
\* in the items of the earlier run.
C16_ReadJoinsCurrentName ==
    [][\A p \in Procs :
          Returns(p, "get_payroll") =>
              LET got == ret'[p].val.items
                  kept == StoredItems(payroll_items, args'[p].id)
              IN  /\ Len(got) = Len(kept)
                  /\ \A n \in 1..Len(got) :
                        /\ got[n].employee_id = kept[n].employee_id
                        /\ got[n].name = employees[got[n].employee_id]["name"]
                        /\ got[n].gross = kept[n].gross
                        /\ got[n].deductions = kept[n].deductions
                        /\ got[n].net = kept[n].net]_vars

\* getPayrollRun has returned an item under a name the employee did not
\* have when the run was approved, with the amounts of the approval.
C16_Witness ==
    \E p \in Procs :
        /\ Finished(p, "get_payroll")
        /\ Len(ret[p].val.items) = 1
        /\ ret[p].val.items[1].name # savedFrom[args[p].id].items[1].name
        /\ ret[p].val.items[1].name = "zed"
        /\ ret[p].val.items[1].gross = savedFrom[args[p].id].items[1].gross

\* A request of p is taken up in this step.
Called(p, op) == pc[p] = "idle" /\ pc'[p] # "idle" /\ args'[p].op = op

\* C17: not-found is a result that changes nothing.  updateEmployee and
\* terminateEmployee on an id that no employee has return false, getEmployee
\* and getPayrollRun on an unknown id return none, and no step of these
\* requests changes an employee, a run or an item, committed or pending.
\* The only other outcome is terminateEmployee's storage failure while
\* another connection holds the write lock, which changes nothing either.
C17_NotFoundChangesNothing ==
    [][\A p \in Procs :
          /\ (Called(p, "update") /\ args'[p].id \notin DOMAIN employees) =>
                /\ pc'[p] = "done"
                /\ ret'[p] = IF ValidUpdate(args'[p].body)
                             THEN [status |-> "ok", val |-> FALSE]
                             ELSE [status |-> "invalid"]
                /\ UNCHANGED <<store, tx>>
          /\ (Called(p, "terminate") /\ args'[p].id \notin DOMAIN employees) =>
                /\ \/ pc'[p] = "term_commit" /\ lock \in {0, p}
                   \/ pc'[p] = "raised" /\ lock \notin {0, p}
                /\ UNCHANGED <<store, tx>>
          /\ (pc[p] = "term_commit" /\ args[p].id \notin DOMAIN employees) =>
                /\ pc'[p] \in {"term_commit", "done"}
                /\ pc'[p] = "done" => ret'[p] = [status |-> "ok", val |-> FALSE]
                /\ UNCHANGED <<store, tx>>
          /\ (Called(p, "get_employee") /\ args'[p].id \notin DOMAIN employees) =>
                /\ pc'[p] = "done"
                /\ ret'[p] = [status |-> "ok", val |-> [found |-> FALSE]]
                /\ UNCHANGED <<store, tx>>
          /\ (Called(p, "get_payroll") /\ args'[p].id \notin DOMAIN payrolls) =>
                /\ pc'[p] = "done"
                /\ ret'[p] = [status |-> "not_found"]
                /\ UNCHANGED <<store, tx>>]_vars

\* With an employee in the store, terminateEmployee on an id no employee
\* has has returned false and getPayrollRun on an unknown id has returned
\* none.
C17_Witness ==
    \E p, q \in Procs :
        /\ Finished(p, "terminate")
        /\ ret[p].val = FALSE
        /\ args[p].id \notin DOMAIN employees
        /\ DOMAIN employees # {}
        /\ pc[q] = "done"
        /\ args[q].op = "get_payroll"
        /\ ret[q].status = "not_found"

\* C18: a successful terminateEmployee is not undone by an updateEmployee
\* that does not supply status.  Once terminateEmployee(id) has returned true
\* and an updateEmployee(id, fields) whose fields omit status has finished,
\* in whatever interleaving, the stored status of id is 'exited' and no
\* preview has an item for id.
C18_TerminateNotUndone ==
    \A p, q \in Procs :
        ( /\ Finished(p, "terminate")
          /\ ret[p].val = TRUE
          /\ Finished(q, "update")
          /\ args[q].id = args[p].id
          /\ "status" \notin DOMAIN args[q].body )
        => /\ employees[args[p].id]["status"] = "exited"
           /\ \A period \in Periods :
                 LET pv == preview_payroll(employees, period[1], period[2])
                 IN  \A n \in 1..Len(pv.items) : pv.items[n].employee_id # args[p].id

\* The items are exactly the employees active in emps, in id order, each
\* with gross equal to its salary in emps.
ItemsOfInstant(items, emps) ==
    /\ { items[n].employee_id : n \in 1..Len(items) } = ActiveIds(emps)
    /\ Len(items) = Cardinality(ActiveIds(emps))
    /\ \A n \in 1..Len(items) : items[n].gross = emps[items[n].employee_id]["salary"]

\* C19: the items persisted by one approvePayroll reflect a single instant
\* of the employee table, the preview read.  The preview an approval takes
\* is exactly the employees active in the store state of its read, each with
\* gross equal to its salary there; it is not changed while the approval
\* runs, whatever createEmployee, updateEmployee and terminateEmployee do in
\* between; and the items stored when the approval returns are its items.
C19_ItemsOfOneInstant ==
    [][\A p \in Procs :
          /\ Called(p, "approve") =>
                /\ pc'[p] = "save_run"
                /\ ItemsOfInstant(local'[p].preview.items, employees)
                /\ UNCHANGED employees
          /\ (pc[p] \in {"save_run", "save_items"} /\ pc'[p] \in {"save_items", "done"}) =>
                /\ pc'[p] = "save_items" => local'[p].preview = local[p].preview
                /\ pc'[p] = "done" =>
                      StoredItems(payroll_items', ret'[p].val) = PreviewItems(local[p].preview)]_vars

\* An approval has inserted every item of its preview and is about to
\* commit, and an employee's salary was changed after the preview read: the
\* item carries the salary of the read, not the current one.
C19_Witness ==
    \E p \in Procs :
        /\ pc[p] = "save_items"
        /\ local[p].k > Len(local[p].preview.items)
        /\ \E n \in 1..Len(local[p].preview.items) :
              LET item == local[p].preview.items[n]
              IN  /\ item.gross # employees[item.employee_id]["salary"]
                  /\ \E i \in DOMAIN txItems :
                        /\ txItems[i].employee_id = item.employee_id
                        /\ txItems[i].gross = item.gross

\* Every stored item, committed or pending, belongs to a stored run and to a
\* stored employee, and get_payroll's join returns every item of each run.
ItemsReferToRows ==
    /\ \A i \in DOMAIN payroll_items :
          /\ payroll_items[i].payroll_id \in DOMAIN payrolls
          /\ payroll_items[i].employee_id \in DOMAIN employees
    /\ \A i \in DOMAIN txItems :
          /\ txItems[i].payroll_id \in DOMAIN payrolls \cup DOMAIN txPayrolls
          /\ txItems[i].employee_id \in DOMAIN employees
    /\ \A r \in DOMAIN payrolls :
          LET got == get_payroll(payrolls, payroll_items, employees, r)
          IN  /\ got.found
              /\ Len(got.val.items) = Len(StoredItems(payroll_items, r))
              /\ \A n \in 1..Len(got.val.items) :
                    got.val.items[n].employee_id = StoredItems(payroll_items, r)[n].employee_id

\* C20: referential integrity of history.  In every reachable state every
\* stored payroll item references an existing run and an existing employee,
\* no step removes an employee, and getPayrollRun(id) returns exactly as many
\* items as were persisted for that run.
C20_ReferentialIntegrity ==
    /\ []ItemsReferToRows
    /\ [][DOMAIN employees \subseteq DOMAIN employees']_vars

\* A run holds an item of an employee who has since been terminated, and
\* the join still returns that item.
C20_Witness ==
    \E r \in DOMAIN payrolls :
        /\ StoredItems(payroll_items, r) # <<>>
        /\ employees[StoredItems(payroll_items, r)[1].employee_id]["status"] = "exited"
        /\ Len(get_payroll(payrolls, payroll_items, employees, r).val.items) =
              Len(StoredItems(payroll_items, r))

====
